---- MODULE Spec2Model ----
(***************************************************************************)
(* Model of the multi-omics integration engine of the metagenome analysis  *)
(* series:                                                                 *)
(*   day10-multiomics-integration/scripts/01_load_and_prepare_data.py      *)
(*   day10-multiomics-integration/scripts/02_normalize_data.py             *)
(*   day10-multiomics-integration/scripts/03_calculate_expression_ratios.py*)
(*   day10-multiomics-integration/toy_data_images/taxonomy_integration/    *)
(*       taxonomy_integration.py  (percentage normalisation)               *)
(*   day10-multiomics-integration/toy_data_images/pathway/pathway.py       *)
(*   day3_binning/scripts/visulization/combine_abundance_coverage.py       *)
(*                                                                         *)
(* Numbers.  The scripts compute in float64.  The model computes in exact  *)
(* rational arithmetic and keeps the three non-finite outcomes of IEEE     *)
(* division and of log2 apart (NaN, +inf, -inf).  A logarithm log2(q) of a *)
(* positive rational q is represented by q itself, a mean of logarithms by *)
(* the product of their arguments and their number, so that comparisons of *)
(* a mean with the thresholds 0, 2 and -2 are exact.  Products of          *)
(* per-million values exceed 32 bits and are kept as digit sequences.      *)
(***************************************************************************)
EXTENDS Integers, Sequences, FiniteSets, TLC

(***************************************************************************)
(* Bounds of the model.                                                    *)
(***************************************************************************)
\* raw counts of the input tables range over 0..MaxCount
MaxCount == 1
\* feature identifiers that may occur in the genomic and in the activity
\* input table; a table has at most two rows, in any order
MgFeatures == {"g1", "g2"}
MtxFeatures == {"g1", "g2", "g3"}
\* the sample pairs S<i>_MG / S<i>_MTX of the two tables
Samples == 1..2
\* genome bins (MAGs) 1..MaxMags, numbered in the lexicographic order of
\* their names, each measured in the samples BinSamples
MaxMags == 1
BinSamples == 1..2
\* per-sample relative abundances and coverages, around the two thresholds
RAValues == {4, 5, 6}
CovValues == {79, 80, 81}

(***************************************************************************)
(* Integer helpers.                                                        *)
(***************************************************************************)
RECURSIVE GCD(_, _)
GCD(a, b) == IF b = 0 THEN a ELSE GCD(b, a % b)

Range(s) == {s[i] : i \in DOMAIN s}

(***************************************************************************)
(* Unbounded naturals as little-endian digit sequences in base Base, the   *)
(* empty sequence being 0.  Only products and comparisons are needed.      *)
(***************************************************************************)
Base == 100 * 100

RECURSIVE BigOf(_)
BigOf(n) == IF n = 0 THEN <<>> ELSE <<n % Base>> \o BigOf(n \div Base)

RECURSIVE BigAdd(_, _, _)
BigAdd(x, y, carry) ==
  IF x = <<>> /\ y = <<>> THEN BigOf(carry)
  ELSE LET a == IF x = <<>> THEN 0 ELSE Head(x)
           b == IF y = <<>> THEN 0 ELSE Head(y)
           t == a + b + carry
       IN <<t % Base>> \o BigAdd(IF x = <<>> THEN x ELSE Tail(x),
                                 IF y = <<>> THEN y ELSE Tail(y),
                                 t \div Base)

RECURSIVE BigMulDigit(_, _, _)
BigMulDigit(x, d, carry) ==
  IF x = <<>> THEN BigOf(carry)
  ELSE LET t == Head(x) * d + carry
       IN <<t % Base>> \o BigMulDigit(Tail(x), d, t \div Base)

RECURSIVE BigStrip(_)
\* drop leading (most significant) zero digits
BigStrip(x) ==
  IF x = <<>> THEN x
  ELSE IF x[Len(x)] = 0 THEN BigStrip(SubSeq(x, 1, Len(x) - 1))
  ELSE x

RECURSIVE BigMulRaw(_, _)
BigMulRaw(x, y) ==
  IF y = <<>> THEN <<>>
  ELSE BigAdd(BigMulDigit(x, Head(y), 0), <<0>> \o BigMulRaw(x, Tail(y)), 0)

BigMul(x, y) == BigStrip(BigMulRaw(x, y))

RECURSIVE BigCmpAt(_, _, _)
\* compares digits i, i-1, .. 1 of two sequences of equal length
BigCmpAt(x, y, i) ==
  IF i = 0 THEN 0
  ELSE IF x[i] > y[i] THEN 1
  ELSE IF x[i] < y[i] THEN -1
  ELSE BigCmpAt(x, y, i - 1)

\* -1, 0 or 1 as x < y, x = y, x > y
BigCmp(x, y) ==
  IF Len(x) > Len(y) THEN 1
  ELSE IF Len(x) < Len(y) THEN -1
  ELSE BigCmpAt(x, y, Len(x))

RECURSIVE BigPow(_, _)
BigPow(b, n) == IF n = 0 THEN <<1>> ELSE BigMul(BigOf(b), BigPow(b, n - 1))

(***************************************************************************)
(* float64 values: a rational n/d in lowest terms with d > 0, or one of    *)
(* the non-finite values.                                                  *)
(***************************************************************************)
NaN == [kind |-> "nan", n |-> 0, d |-> 1]
PosInf == [kind |-> "inf", n |-> 1, d |-> 1]
NegInf == [kind |-> "inf", n |-> -1, d |-> 1]

Abs(x) == IF x < 0 THEN -x ELSE x

\* the float n/d for integers n, d with d # 0
Rat(n, d) ==
  LET g == GCD(Abs(n), Abs(d))
      s == IF d < 0 THEN -1 ELSE 1
  IN [kind |-> "num", n |-> s * (n \div g), d |-> s * (d \div g)]

Num(i) == Rat(i, 1)

IsNum(x) == x.kind = "num"
IsNaN(x) == x.kind = "nan"
\* pd.isna(x)
isna(x) == IsNaN(x)

\* x + y (numpy float addition)
FAdd(x, y) ==
  IF IsNaN(x) \/ IsNaN(y) THEN NaN
  ELSE IF IsNum(x) /\ IsNum(y) THEN Rat(x.n * y.d + y.n * x.d, x.d * y.d)
  ELSE IF IsNum(x) THEN y
  ELSE IF IsNum(y) THEN x
  ELSE IF x = y THEN x ELSE NaN

\* x * y
FMul(x, y) ==
  IF IsNaN(x) \/ IsNaN(y) THEN NaN
  ELSE IF IsNum(x) /\ IsNum(y) THEN Rat(x.n * y.n, x.d * y.d)
  ELSE IF x.n = 0 \/ y.n = 0 THEN NaN
  ELSE IF (x.n > 0) = (y.n > 0) THEN PosInf ELSE NegInf

\* x / y (numpy float division: 0/0 is NaN, x/0 is +-inf, no error raised)
FDiv(x, y) ==
  IF IsNaN(x) \/ IsNaN(y) THEN NaN
  ELSE IF IsNum(x) /\ IsNum(y) THEN
         IF y.n # 0 THEN Rat(x.n * y.d, x.d * y.n)
         ELSE IF x.n = 0 THEN NaN
         ELSE IF x.n > 0 THEN PosInf ELSE NegInf
  ELSE IF IsNum(y) THEN
         (IF y.n >= 0 THEN x ELSE IF x = PosInf THEN NegInf ELSE PosInf)
  ELSE IF IsNum(x) THEN Num(0)
  ELSE NaN

\* x > y, x < y as Python compares floats: FALSE as soon as one side is NaN
FGt(x, y) ==
  IF IsNaN(x) \/ IsNaN(y) THEN FALSE
  ELSE IF IsNum(x) /\ IsNum(y) THEN x.n * y.d > y.n * x.d
  ELSE IF IsNum(x) THEN y = NegInf
  ELSE IF IsNum(y) THEN x = PosInf
  ELSE x = PosInf /\ y = NegInf

FLt(x, y) == FGt(y, x)
FLe(x, y) == ~IsNaN(x) /\ ~IsNaN(y) /\ ~FGt(x, y)

(***************************************************************************)
(* log2 values.  log2 of a positive rational a/b is kept as the record     *)
(* [kind |-> "log", n |-> a, d |-> b] (a/b in lowest terms); log2(0) is    *)
(* -inf and log2 of a negative number or of NaN is NaN, as numpy computes  *)
(* them (with a warning, without raising).                                 *)
(***************************************************************************)
log2(x) ==
  IF IsNaN(x) THEN NaN
  ELSE IF IsNum(x) THEN
         IF x.n > 0 THEN [kind |-> "log", n |-> x.n, d |-> x.d]
         ELSE IF x.n = 0 THEN NegInf ELSE NaN
  ELSE IF x = PosInf THEN PosInf ELSE NaN

IsLog(r) == r.kind = "log"

(***************************************************************************)
(* Tables (pandas DataFrame): an ordered row index of unique labels, an    *)
(* ordered column list and one value per label and column.                 *)
(***************************************************************************)
Col(i, role) == [sample |-> i, role |-> role]
Cols(role) == [i \in Samples |-> Col(i, role)]

DataFrame(index, columns, data) ==
  [index |-> index, columns |-> columns, data |-> data]

\* variant: the common labels in the order of other
intersection_other_order(self, other) ==
  SelectSeq(other, LAMBDA l : l \in Range(self))

\* Index.intersection(other) with the default sort=False: the labels of
\* self that occur in other, in the order of self
intersection(self, other) ==
  SelectSeq(self, LAMBDA l : l \in Range(other))

\* df.loc[labels]: the rows of df named by labels, in the order of labels
loc(df, labels) ==
  DataFrame(labels, df.columns, [l \in Range(labels) |-> df.data[l]])

\* df.sum(axis=0): per column, the sum of the values that are not NaN
\* (skipna), 0 for a column without any
RECURSIVE SumSkipNa(_, _, _)
SumSkipNa(df, c, i) ==
  IF i = 0 THEN Num(0)
  ELSE LET v == df.data[df.index[i]][c]
           rest == SumSkipNa(df, c, i - 1)
       IN IF IsNaN(v) THEN rest ELSE FAdd(rest, v)

ColumnSums(df) ==
  [c \in Range(df.columns) |-> SumSkipNa(df, c, Len(df.index))]

(***************************************************************************)
(* CSV files.  to_csv writes a header and one line per row, a NaN as the   *)
(* empty field; read_csv (index_col=0) reads an empty field as NaN.        *)
(***************************************************************************)
EmptyField == [empty |-> TRUE, v |-> Num(0)]
Field(v) == IF IsNaN(v) THEN EmptyField ELSE [empty |-> FALSE, v |-> v]
Parse(f) == IF f.empty THEN NaN ELSE f.v

to_csv(df) ==
  [header |-> df.columns,
   rows |-> [i \in 1..Len(df.index) |->
               [label |-> df.index[i],
                cells |-> [c \in Range(df.columns) |->
                             Field(df.data[df.index[i]][c])]]]]

read_csv(file) ==
  LET index == [i \in 1..Len(file.rows) |-> file.rows[i].label]
      RowOf(l) == CHOOSE i \in 1..Len(file.rows) : file.rows[i].label = l
  IN DataFrame(index, file.header,
               [l \in Range(index) |->
                  [c \in Range(file.header) |-> Parse(file.rows[RowOf(l)].cells[c])]])

(***************************************************************************)
(* State.                                                                  *)
(*   data_mg, data_mtx  the two input count tables                         *)
(*                      data/gene_abundance_table.tsv, transcript_counts   *)
(*   results            the files of results/ written so far (name -> file)*)
(*   report             the numbers the scripts print                      *)
(*   step               the next script of the run 01 -> 02 -> 03          *)
(*   abundance, coverage  the two tables combine_abundance_coverage.py     *)
(*                      loads (CoverM relative abundance, SingleM coverage)*)
(*   joined             the table object combine_data() built, with the    *)
(*                      rows, columns and values it has now                *)
(*   combined           the table the variable combined of its main() holds*)
(*   bin_report         the numbers combine_data() prints                  *)
(*   output_dir         the directory args.output: whether it exists, the  *)
(*                      operations of the run on it in their order (mkdir  *)
(*                      or the name of a file written), the files in it    *)
(*   bin_step           the next step of its main(): 1 combine_data,       *)
(*                      2 classify_mags, 3 create_decision_matrix_plot,    *)
(*                      4 create_combined_heatmap, 5 save_results, 6 done, *)
(*                      7 ended by an exception                            *)
(*   mg_taxa, mtx_taxa  the two taxon abundance tables                     *)
(*                      taxonomy_integration.py loads                      *)
(*   taxa_rel           its two percentage tables                          *)
(*   activity_scores    its result table, as saved                         *)
(*   top20_active       the rows of its first plot                         *)
(*   taxa_step          1 before its main() has run, 2 after it saved its  *)
(*                      table, 3 after it raised KeyError                  *)
(*   mg_pathways, mtx_pathways  the two pathway abundance tables           *)
(*                      pathway.py loads                                   *)
(*   pathway_cpm        its two per-million tables                         *)
(*   pathway_ratios     its result table, as saved                         *)
(*   top_active, top_inactive  the rows of its two plots                   *)
(*   pathway_step       1 before its main() has run, 2 after it saved its  *)
(*                      table, 3 after it raised KeyError                  *)
(* step is 5 after script 03 raised KeyError.                              *)
(***************************************************************************)
VARIABLES data_mg, data_mtx, results, report, step,
          abundance, coverage, joined, combined, bin_report, output_dir, bin_step,
          mg_taxa, mtx_taxa, taxa_rel, activity_scores, top20_active, taxa_step,
          mg_pathways, mtx_pathways, pathway_cpm, pathway_ratios,
          top_active, top_inactive, pathway_step

vars == <<data_mg, data_mtx, results, report, step,
          abundance, coverage, joined, combined, bin_report, output_dir, bin_step,
          mg_taxa, mtx_taxa, taxa_rel, activity_scores, top20_active, taxa_step,
          mg_pathways, mtx_pathways, pathway_cpm, pathway_ratios,
          top_active, top_inactive, pathway_step>>

taxa_vars == <<mg_taxa, mtx_taxa, taxa_rel, activity_scores, top20_active, taxa_step>>

pathway_vars == <<mg_pathways, mtx_pathways, pathway_cpm, pathway_ratios,
                  top_active, top_inactive, pathway_step>>

gene_vars == <<data_mg, data_mtx, results, report, step>>
bin_vars == <<abundance, coverage, joined, combined, bin_report, output_dir, bin_step>>

Exists(name) == name \in DOMAIN results

\* results with file name (over)written
Write(res, name, file) ==
  [f \in DOMAIN res \cup {name} |-> IF f = name THEN file ELSE res[f]]

(***************************************************************************)
(* Input tables: every row order of at most two distinct features, every   *)
(* non-negative count up to MaxCount in every cell.                        *)
(***************************************************************************)
Indexes(F) ==
  {<<>>} \cup {<<f>> : f \in F}
         \cup {ix \in {<<f, g>> : f \in F, g \in F} : ix[1] # ix[2]}

Counts == {Num(c) : c \in 0..MaxCount}

CountTables(F, role) ==
  UNION {{DataFrame(ix, Cols(role), d) :
            d \in [Range(ix) -> [Range(Cols(role)) -> Counts]]} :
         ix \in Indexes(F)}

NoReport ==
  [mg_count |-> -1, mtx_count |-> -1,
   common |-> -1, mg_specific |-> -1, mtx_specific |-> -1,
   mg_totals |-> <<>>, mtx_totals |-> <<>>,
   highly_expressed_count |-> -1, moderately_expressed_count |-> -1,
   under_expressed_count |-> -1,
   top_highly |-> DataFrame(<<>>, <<>>, <<>>), top_under |-> DataFrame(<<>>, <<>>, <<>>)]

EmptyTable == DataFrame(<<>>, <<>>, <<>>)

NoBinReport == [total |-> -1, both |-> -1, only_coverm |-> -1, only_singlem |-> -1]

\* the directory args.output before the run, there (exists) or not
Directory(exists) == [exists |-> exists, log |-> <<>>, files |-> <<>>, error |-> "None"]

\* no bin analysis is run
NoBins ==
  /\ abundance = EmptyTable
  /\ coverage = EmptyTable
  /\ joined = EmptyTable
  /\ combined = EmptyTable
  /\ bin_report = NoBinReport
  /\ output_dir = Directory(FALSE)
  /\ bin_step = 0

\* no taxon analysis is run
NoTaxa ==
  /\ mg_taxa = EmptyTable
  /\ mtx_taxa = EmptyTable
  /\ taxa_rel = [mg |-> EmptyTable, mtx |-> EmptyTable]
  /\ activity_scores = EmptyTable
  /\ top20_active = EmptyTable
  /\ taxa_step = 0

\* no pathway analysis is run
NoPathways ==
  /\ mg_pathways = EmptyTable
  /\ mtx_pathways = EmptyTable
  /\ pathway_cpm = [mg |-> EmptyTable, mtx |-> EmptyTable]
  /\ pathway_ratios = EmptyTable
  /\ top_active = EmptyTable
  /\ top_inactive = EmptyTable
  /\ pathway_step = 0

\* no gene-level analysis is run
NoGenes ==
  /\ data_mg = EmptyTable
  /\ data_mtx = EmptyTable
  /\ results = <<>>
  /\ report = NoReport
  /\ step = 0

Init ==
  /\ data_mg \in CountTables(MgFeatures, "MG")
  /\ data_mtx \in CountTables(MtxFeatures, "MTX")
  /\ results = <<>>
  /\ report = NoReport
  /\ step = 1
  /\ NoBins
  /\ NoTaxa
  /\ NoPathways

(***************************************************************************)
(* 01_load_and_prepare_data.py main()                                      *)
(***************************************************************************)
\* variant: the size of the table, the common features not taken off
specific_unaligned(genes, common_genes) == Len(genes.index)

\* the number of features of a table that are not common features
specific(genes, common_genes) == Len(genes.index) - Len(common_genes)

LoadAndPrepare ==
  /\ step = 1
  /\ LET mg_genes == data_mg
         mtx_transcripts == data_mtx
         common_genes == intersection(mg_genes.index, mtx_transcripts.index)
         mg_aligned == loc(mg_genes, common_genes)
         mtx_aligned == loc(mtx_transcripts, common_genes)
     IN /\ report' = [report EXCEPT
                        !.mg_count = Len(mg_genes.index),
                        !.mtx_count = Len(mtx_transcripts.index),
                        !.common = Len(common_genes),
                        !.mg_specific = specific(mg_genes, common_genes),
                        !.mtx_specific = specific(mtx_transcripts, common_genes)]
        /\ results' = Write(Write(results, "mg_genes_aligned.csv", to_csv(mg_aligned)),
                            "mtx_transcripts_aligned.csv", to_csv(mtx_aligned))
  /\ step' = 2
  /\ UNCHANGED <<data_mg, data_mtx, bin_vars, taxa_vars, pathway_vars>>

(***************************************************************************)
(* 02_normalize_data.py                                                    *)
(***************************************************************************)
\* the row sums of df (df.sum(axis=1))
RECURSIVE RowSumSkipNa(_, _, _)
RowSumSkipNa(df, l, k) ==
  IF k = 0 THEN Num(0)
  ELSE LET v == df.data[l][df.columns[k]]
           rest == RowSumSkipNa(df, l, k - 1)
       IN IF IsNaN(v) THEN rest ELSE FAdd(rest, v)

\* variant: division by the row sums
Normalize_axis1(df, K) ==
  DataFrame(df.index, df.columns,
            [l \in Range(df.index) |->
               [c \in Range(df.columns) |->
                  FMul(FDiv(df.data[l][c], RowSumSkipNa(df, l, Len(df.columns))),
                       Num(K))]])

\* variant: undefined cells replaced by 0
Normalize_fillna(df, K) ==
  LET totals == ColumnSums(df)
      cell(l, c) == FMul(FDiv(df.data[l][c], totals[c]), Num(K))
  IN DataFrame(df.index, df.columns,
               [l \in Range(df.index) |->
                  [c \in Range(df.columns) |->
                     IF IsNaN(cell(l, c)) THEN Num(0) ELSE cell(l, c)]])

\* (df / df.sum(axis=0)) * K, cell by cell
Normalize(df, K) ==
  LET totals == ColumnSums(df)
  IN DataFrame(df.index, df.columns,
               [l \in Range(df.index) |->
                  [c \in Range(df.columns) |->
                     FMul(FDiv(df.data[l][c], totals[c]), Num(K))]])

PerMillion == 1000000

\* variant: scaling to 100
normalize_cpm_percent(df) == Normalize(df, 100)

normalize_cpm(df) == Normalize(df, PerMillion)

\* main()
NormalizeData ==
  /\ step = 2
  /\ Exists("mg_genes_aligned.csv") /\ Exists("mtx_transcripts_aligned.csv")
  /\ LET mg_genes == read_csv(results["mg_genes_aligned.csv"])
         mtx_transcripts == read_csv(results["mtx_transcripts_aligned.csv"])
         mg_cpm == normalize_cpm(mg_genes)
         mtx_cpm == normalize_cpm(mtx_transcripts)
     IN /\ report' = [report EXCEPT !.mg_totals = ColumnSums(mg_cpm),
                                    !.mtx_totals = ColumnSums(mtx_cpm)]
        /\ results' = Write(Write(results, "mg_genes_cpm.csv", to_csv(mg_cpm)),
                            "mtx_transcripts_cpm.csv", to_csv(mtx_cpm))
  /\ step' = 3
  /\ UNCHANGED <<data_mg, data_mtx, bin_vars, taxa_vars, pathway_vars>>

(***************************************************************************)
(* 03_calculate_expression_ratios.py                                       *)
(***************************************************************************)
pseudocount == 1

\* variant: np.log2(v / g)
Ratio_no_pseudocount(v, g, p) == log2(FDiv(v, g))

\* variant: the pseudocount added to the activity value only
Ratio_numerator_only(v, g, p) == log2(FDiv(FAdd(v, Num(p)), g))

\* variant: the pseudocount added to the genomic value only
Ratio_denominator_only(v, g, p) == log2(FDiv(v, FAdd(g, Num(p))))

\* np.log2((v + pseudocount) / (g + pseudocount))
Ratio(v, g, p) == log2(FDiv(FAdd(v, Num(p)), FAdd(g, Num(p))))

\* the values of a row that are not NaN, in column order
RECURSIVE Defined(_)
Defined(vals) ==
  IF vals = <<>> THEN <<>>
  ELSE IF IsNaN(Head(vals)) THEN Defined(Tail(vals))
  ELSE <<Head(vals)>> \o Defined(Tail(vals))

RECURSIVE ProdN(_)
ProdN(logs) == IF logs = <<>> THEN <<1>> ELSE BigMul(BigOf(Head(logs).n), ProdN(Tail(logs)))
RECURSIVE ProdD(_)
ProdD(logs) == IF logs = <<>> THEN <<1>> ELSE BigMul(BigOf(Head(logs).d), ProdD(Tail(logs)))

\* variant: an undefined value counted as the ratio 0
RowMean_nan_as_zero(vals) ==
  LET zero == [kind |-> "log", n |-> 1, d |-> 1]
      filled == [k \in DOMAIN vals |-> IF IsNaN(vals[k]) THEN zero ELSE vals[k]]
  IN IF filled = <<>> THEN NaN
     ELSE [kind |-> "mean", pn |-> ProdN(filled), pd |-> ProdD(filled),
           cnt |-> Len(filled)]

\* DataFrame.mean(axis=1) of one row: the arithmetic mean of the values that
\* are not NaN, NaN when there is none.  The mean of cnt logarithms
\* log2(n_i/d_i) is kept as (pn, pd, cnt) = (prod n_i, prod d_i, cnt).
RowMean(vals) ==
  LET defd == Defined(vals)
      infs == {defd[i] : i \in {j \in DOMAIN defd : defd[j].kind = "inf"}}
  IN IF defd = <<>> THEN NaN
     ELSE IF infs # {} THEN (IF Cardinality(infs) = 1 THEN CHOOSE x \in infs : TRUE ELSE NaN)
     ELSE [kind |-> "mean", pn |-> ProdN(defd), pd |-> ProdD(defd), cnt |-> Len(defd)]

\* DataFrame.std(axis=1) of one row (ddof = 1): NaN unless at least two values
\* are not NaN; otherwise the sample standard deviation of those values, kept
\* as the values it is taken over
RowStd(vals) ==
  LET defd == Defined(vals)
  IN IF Len(defd) < 2 THEN NaN
     ELSE [kind |-> "std", of |-> defd, ddof |-> 1]

\* mean > t and mean < t for an integer threshold t
\* (log2(pn/pd) / cnt > t  iff  pn > 2^(t*cnt) * pd)
MeanCmpInt(m, t) ==
  IF t >= 0 THEN BigCmp(m.pn, BigMul(BigPow(2, t * m.cnt), m.pd))
  ELSE BigCmp(BigMul(BigPow(2, (-t) * m.cnt), m.pn), m.pd)

MeanGt(m, t) ==
  IF m.kind = "nan" THEN FALSE
  ELSE IF m.kind = "inf" THEN m.n > 0
  ELSE MeanCmpInt(m, t) = 1

MeanLt(m, t) ==
  IF m.kind = "nan" THEN FALSE
  ELSE IF m.kind = "inf" THEN m.n < 0
  ELSE MeanCmpInt(m, t) = -1

RECURSIVE BigPowBig(_, _)
BigPowBig(x, n) == IF n = 0 THEN <<1>> ELSE BigMul(x, BigPowBig(x, n - 1))

\* -1, 0, 1 as mean a is below, equal to, above mean b (neither is NaN)
\* (log2(A)/m < log2(B)/n  iff  A^n < B^m)
MeanCmp(a, b) ==
  IF a.kind = "inf" /\ b.kind = "inf" THEN
       (IF a.n = b.n THEN 0 ELSE IF a.n > b.n THEN 1 ELSE -1)
  ELSE IF a.kind = "inf" THEN (IF a.n > 0 THEN 1 ELSE -1)
  ELSE IF b.kind = "inf" THEN (IF b.n > 0 THEN -1 ELSE 1)
  ELSE BigCmp(BigMul(BigPowBig(a.pn, b.cnt), BigPowBig(b.pd, a.cnt)),
              BigMul(BigPowBig(b.pn, a.cnt), BigPowBig(a.pd, b.cnt)))

MeanCol == [sample |-> 0, role |-> "Mean_Log2_Ratio"]
StdCol == [sample |-> 0, role |-> "StdDev"]

\* variant: every row
Filter_all(df, keep) == df

\* df[mask]: the rows of df whose label is in keep, in the order of df
Filter(df, keep) ==
  LET ix == SelectSeq(df.index, LAMBDA l : l \in keep)
  IN DataFrame(ix, df.columns, [l \in Range(ix) |-> df.data[l]])

\* the orders of a set of labels
RECURSIVE Perms(_)
Perms(S) ==
  IF S = {} THEN {<<>>}
  ELSE UNION {{<<x>> \o p : p \in Perms(S \ {x})} : x \in S}

\* df.sort_values('Mean_Log2_Ratio', ascending=...), no row of df having a
\* NaN mean.  The sort is the default kind='quicksort', which is not a
\* stable sort: what it returns is the rows of df by non-decreasing
\* (ascending) or non-increasing mean, rows of equal mean in an order the
\* call does not fix.  The set of the tables it may return.
sort_values(df, ascending) ==
  LET key(l) == df.data[l][MeanCol]
      InOrder(ix) ==
        \A i, j \in DOMAIN ix :
          i < j => IF ascending THEN MeanCmp(key(ix[i]), key(ix[j])) <= 0
                   ELSE MeanCmp(key(ix[i]), key(ix[j])) >= 0
  IN {DataFrame(ix, df.columns, df.data) :
        ix \in {p \in Perms(Range(df.index)) : InOrder(p)}}

Min(a, b) == IF a < b THEN a ELSE b

\* df.head(n), df.tail(n): the first, the last n rows of df, all of them
\* when df has fewer
head(df, n) ==
  LET ix == SubSeq(df.index, 1, Min(n, Len(df.index)))
  IN DataFrame(ix, df.columns, [l \in Range(ix) |-> df.data[l]])

tail(df, n) ==
  LET ix == SubSeq(df.index, Len(df.index) - Min(n, Len(df.index)) + 1, Len(df.index))
  IN DataFrame(ix, df.columns, [l \in Range(ix) |-> df.data[l]])

\* df[columns]
Columns(df, columns) ==
  DataFrame(df.index, columns,
            [l \in Range(df.index) |-> [c \in Range(columns) |-> df.data[l][c]]])

\* the number of rows of the two printed lists
TopGenes == 10

\* variant: the activity columns looked up under the genomic names
mtx_samples_unreplaced(mg_samples) == mg_samples

\* [col.replace('MG', 'MTX') for col in mg_samples]
mtx_samples(mg_samples) ==
  [k \in DOMAIN mg_samples |-> Col(mg_samples[k].sample, "MTX")]

\* variant: every column
iloc_all(columns) == columns

\* .iloc[:, :-1]: every column but the last
iloc(columns) == SubSeq(columns, 1, Len(columns) - 1)

\* the table expression_ratios of main(): one ratio column per sample pair,
\* then Mean_Log2_Ratio (the mean of the columns there are when it is
\* added), then StdDev (of the columns before the last, the mean)
ExpressionRatios(mg_cpm, mtx_cpm) ==
  LET common_genes == intersection(mg_cpm.index, mtx_cpm.index)
      mg_samples == SelectSeq(mg_cpm.columns, LAMBDA col : col.role = "MG")
      mtx_cols == mtx_samples(mg_samples)
      sample_id(k) == Col(mg_samples[k].sample, "ratio")
      ratio(l, k) == Ratio(mtx_cpm.data[l][mtx_cols[k]],
                           mg_cpm.data[l][mg_samples[k]], pseudocount)
      ratios(l) == [k \in DOMAIN mg_samples |-> ratio(l, k)]
      with_mean == [k \in DOMAIN mg_samples |-> sample_id(k)] \o <<MeanCol>>
      columns == with_mean \o <<StdCol>>
      PairOf(c) == CHOOSE k \in DOMAIN mg_samples : sample_id(k) = c
      value(l, c) == IF c = MeanCol THEN RowMean(ratios(l)) ELSE ratio(l, PairOf(c))
      std_cols == iloc(with_mean)
  IN DataFrame(common_genes, columns,
               [l \in Range(common_genes) |->
                  [c \in Range(columns) |->
                     IF c = StdCol
                     THEN RowStd([k \in DOMAIN std_cols |-> value(l, std_cols[k])])
                     ELSE value(l, c)]])

\* the three conditions on Mean_Log2_Ratio that main() counts
IsHighly(m) == MeanGt(m, 2)
IsModerately(m) == MeanGt(m, 0) /\ MeanLt(m, 2)
IsUnder(m) == MeanLt(m, 0)

\* the rows of the masks, and (mask).sum()
Highly(df) == {i \in DOMAIN df.index : IsHighly(df.data[df.index[i]][MeanCol])}
Moderately(df) == {i \in DOMAIN df.index : IsModerately(df.data[df.index[i]][MeanCol])}
Under(df) == {i \in DOMAIN df.index : IsUnder(df.data[df.index[i]][MeanCol])}

\* main().  mtx_cpm[mtx_col] raises KeyError in the loop over the sample
\* pairs when the activity table has no column mtx_col: the run ends there,
\* before any file is written (step 5).
CalculateExpressionRatios ==
  /\ step = 3
  /\ Exists("mg_genes_cpm.csv") /\ Exists("mtx_transcripts_cpm.csv")
  /\ LET mg_cpm == read_csv(results["mg_genes_cpm.csv"])
         mtx_cpm == read_csv(results["mtx_transcripts_cpm.csv"])
         mg_samples == SelectSeq(mg_cpm.columns, LAMBDA col : col.role = "MG")
         expression_ratios == ExpressionRatios(mg_cpm, mtx_cpm)
         mean(l) == expression_ratios.data[l][MeanCol]
         genes == Range(expression_ratios.index)
     IN IF \E mtx_col \in Range(mtx_samples(mg_samples)) :
             mtx_col \notin Range(mtx_cpm.columns)
        THEN /\ step' = 5
             /\ UNCHANGED <<results, report>>
        ELSE /\ \E highly_expressed \in
                     sort_values(Filter(expression_ratios,
                                        {l \in genes : MeanGt(mean(l), 2)}), FALSE),
                   under_expressed \in
                     sort_values(Filter(expression_ratios,
                                        {l \in genes : MeanLt(mean(l), -2)}), TRUE) :
                  /\ report' = [report EXCEPT
                       !.highly_expressed_count = Cardinality(Highly(expression_ratios)),
                       !.moderately_expressed_count =
                          Cardinality(Moderately(expression_ratios)),
                       !.under_expressed_count = Cardinality(Under(expression_ratios)),
                       !.top_highly = Columns(head(highly_expressed, TopGenes),
                                              <<MeanCol, StdCol>>),
                       !.top_under = Columns(head(under_expressed, TopGenes),
                                             <<MeanCol, StdCol>>)]
                  /\ results' = Write(Write(Write(results,
                                  "expression_ratios.csv", to_csv(expression_ratios)),
                                  "highly_expressed_genes.csv", to_csv(highly_expressed)),
                                  "under_expressed_genes.csv", to_csv(under_expressed))
             /\ step' = 4
  /\ UNCHANGED <<data_mg, data_mtx, bin_vars, taxa_vars, pathway_vars>>

Next ==
  \/ LoadAndPrepare
  \/ NormalizeData
  \/ CalculateExpressionRatios

Spec == Init /\ [][Next]_vars

(***************************************************************************)
(* combine_abundance_coverage.py                                           *)
(***************************************************************************)
\* the elements of a finite set of integers in increasing order
RECURSIVE SortedSeq(_)
SortedSeq(S) ==
  IF S = {} THEN <<>>
  ELSE LET m == CHOOSE x \in S : \A y \in S : x <= y
       IN <<m>> \o SortedSeq(S \ {m})

\* abundance.join(coverage, how='outer'): the union of the two row indexes,
\* sorted; the columns of both; NaN where a table has no row for a label
combine_data(abund, cov) ==
  LET index == SortedSeq(Range(abund.index) \cup Range(cov.index))
      columns == abund.columns \o cov.columns
  IN DataFrame(index, columns,
               [l \in Range(index) |->
                  [c \in Range(columns) |->
                     IF c \in Range(abund.columns)
                     THEN (IF l \in Range(abund.index) THEN abund.data[l][c] ELSE NaN)
                     ELSE (IF l \in Range(cov.index) THEN cov.data[l][c] ELSE NaN)]])

\* combined[cols].mean(axis=1) of one row: the mean of the values that are
\* not NaN, NaN when there is none
RECURSIVE SumSeq(_)
SumSeq(vals) == IF vals = <<>> THEN Num(0) ELSE FAdd(Head(vals), SumSeq(Tail(vals)))

\* variant: NaN counted as 0
MeanSkipNa_nan_as_zero(vals) ==
  IF vals = <<>> THEN NaN ELSE FDiv(SumSeq(Defined(vals)), Num(Len(vals)))

MeanSkipNa(vals) ==
  LET defd == Defined(vals)
  IN IF defd = <<>> THEN NaN ELSE FDiv(SumSeq(defd), Num(Len(defd)))

RAThreshold == 5
CovThreshold == 80

Label(s) == [kind |-> "str", s |-> s]

FGe(x, y) == ~IsNaN(x) /\ ~IsNaN(y) /\ ~FGt(y, x)

\* variant: every branch with a strict comparison, no final else
classify_no_else(ra, cov) ==
  IF isna(ra) \/ isna(cov) THEN "Incomplete_Data"
  ELSE IF FGt(ra, Num(RAThreshold)) /\ FGt(cov, Num(CovThreshold))
    THEN "High_Abundance_High_Coverage"
  ELSE IF FGt(ra, Num(RAThreshold)) /\ FLt(cov, Num(CovThreshold))
    THEN "High_Abundance_Low_Coverage"
  ELSE IF FLt(ra, Num(RAThreshold)) /\ FGt(cov, Num(CovThreshold))
    THEN "Low_Abundance_High_Coverage"
  ELSE IF FLt(ra, Num(RAThreshold)) /\ FLt(cov, Num(CovThreshold))
    THEN "Low_Abundance_Low_Coverage"
  ELSE "None"

\* variant: without the pd.isna branch
classify_no_nan_check(ra, cov) ==
  IF FGt(ra, Num(RAThreshold)) /\ FGt(cov, Num(CovThreshold))
    THEN "High_Abundance_High_Coverage"
  ELSE IF FGt(ra, Num(RAThreshold)) /\ FLe(cov, Num(CovThreshold))
    THEN "High_Abundance_Low_Coverage"
  ELSE IF FLe(ra, Num(RAThreshold)) /\ FGt(cov, Num(CovThreshold))
    THEN "Low_Abundance_High_Coverage"
  ELSE "Low_Abundance_Low_Coverage"

\* variant: >= on the High side
classify_ge(ra, cov) ==
  IF isna(ra) \/ isna(cov) THEN "Incomplete_Data"
  ELSE IF FGe(ra, Num(RAThreshold)) /\ FGe(cov, Num(CovThreshold))
    THEN "High_Abundance_High_Coverage"
  ELSE IF FGe(ra, Num(RAThreshold)) /\ FLt(cov, Num(CovThreshold))
    THEN "High_Abundance_Low_Coverage"
  ELSE IF FLt(ra, Num(RAThreshold)) /\ FGe(cov, Num(CovThreshold))
    THEN "Low_Abundance_High_Coverage"
  ELSE "Low_Abundance_Low_Coverage"

\* classify(row) of classify_mags
classify(ra, cov) ==
  IF isna(ra) \/ isna(cov) THEN "Incomplete_Data"
  ELSE IF FGt(ra, Num(RAThreshold)) /\ FGt(cov, Num(CovThreshold))
    THEN "High_Abundance_High_Coverage"
  ELSE IF FGt(ra, Num(RAThreshold)) /\ FLe(cov, Num(CovThreshold))
    THEN "High_Abundance_Low_Coverage"
  ELSE IF FLe(ra, Num(RAThreshold)) /\ FGt(cov, Num(CovThreshold))
    THEN "Low_Abundance_High_Coverage"
  ELSE "Low_Abundance_Low_Coverage"

MeanRACol == [sample |-> 0, role |-> "Mean_RA"]
MeanCovCol == [sample |-> 0, role |-> "Mean_Cov"]
ClassCol == [sample |-> 0, role |-> "Classification"]

\* classify_mags(combined): the table with the columns Mean_RA, Mean_Cov and
\* Classification added
classify_mags(df) ==
  LET ra_cols == SelectSeq(df.columns, LAMBDA c : c.role = "RA")
      cov_cols == SelectSeq(df.columns, LAMBDA c : c.role = "Cov")
      Mean_RA(l) == MeanSkipNa([k \in DOMAIN ra_cols |-> df.data[l][ra_cols[k]]])
      Mean_Cov(l) == MeanSkipNa([k \in DOMAIN cov_cols |-> df.data[l][cov_cols[k]]])
      columns == df.columns \o <<MeanRACol, MeanCovCol, ClassCol>>
  IN DataFrame(df.index, columns,
               [l \in Range(df.index) |->
                  [c \in Range(columns) |->
                     IF c = MeanRACol THEN Mean_RA(l)
                     ELSE IF c = MeanCovCol THEN Mean_Cov(l)
                     ELSE IF c = ClassCol THEN Label(classify(Mean_RA(l), Mean_Cov(l)))
                     ELSE df.data[l][c]]])

\* Input tables of the bin analysis.  The abundance table has a value in
\* every cell; the coverage table is a pivot table: sorted rows, NaN where a
\* bin has no coverage in a sample, at least one value in every row.
Mags == 1..MaxMags

BinIndexes == {SortedSeq(S) : S \in SUBSET Mags}

BinCols(role) == [i \in BinSamples |-> Col(i, role)]

AbundanceTables ==
  UNION {{DataFrame(ix, BinCols("RA"), d) :
            d \in [Range(ix) -> [Range(BinCols("RA")) -> {Num(v) : v \in RAValues}]]} :
         ix \in BinIndexes}

CoverageRows ==
  {r \in [Range(BinCols("Cov")) -> {Num(v) : v \in CovValues} \cup {NaN}] :
     \E c \in DOMAIN r : ~IsNaN(r[c])}

CoverageTables ==
  UNION {{DataFrame(ix, BinCols("Cov"), d) : d \in [Range(ix) -> CoverageRows]} :
         ix \in BinIndexes}

InitBins ==
  /\ abundance \in AbundanceTables
  /\ coverage \in CoverageTables
  /\ joined = EmptyTable
  /\ combined = EmptyTable
  /\ bin_report = NoBinReport
  /\ output_dir \in {Directory(exists) : exists \in BOOLEAN}
  /\ bin_step = 1
  /\ NoGenes
  /\ NoTaxa
  /\ NoPathways

\* df.dropna(): the rows of df without any NaN
dropna(df) ==
  Filter(df, {l \in Range(df.index) : \A c \in Range(df.columns) : ~IsNaN(df.data[l][c])})

\* df[df.filter(like=role).isna().all(axis=1)]: the rows of df in which
\* every column of the role is NaN
AllNaN(df, role) ==
  Filter(df, {l \in Range(df.index) :
                \A c \in Range(df.columns) : c.role = role => IsNaN(df.data[l][c])})

\* main(): combined = combine_data(abundance, coverage), with the four
\* numbers combine_data prints
CombineData ==
  /\ bin_step = 1
  /\ joined' = combine_data(abundance, coverage)
  /\ combined' = joined'
  /\ bin_report' = [total |-> Len(joined'.index),
                    both |-> Len(dropna(joined').index),
                    only_coverm |-> Len(AllNaN(joined', "Cov").index),
                    only_singlem |-> Len(AllNaN(joined', "RA").index)]
  /\ bin_step' = 2
  /\ UNCHANGED <<abundance, coverage, output_dir, gene_vars, taxa_vars, pathway_vars>>

\* main(): combined = classify_mags(combined).  classify_mags assigns its
\* three columns to the table it is given and returns that table: the
\* object combine_data built is the object main() goes on with.
ClassifyMags ==
  /\ bin_step = 2
  /\ combined' = classify_mags(combined)
  /\ joined' = combined'
  /\ bin_step' = 3
  /\ UNCHANGED <<abundance, coverage, bin_report, output_dir, gene_vars, taxa_vars, pathway_vars>>

\* open(path, 'w') and the write: FileNotFoundError when the directory is
\* not there
WriteFile(dir, name, content) ==
  IF dir.error # "None" THEN dir
  ELSE IF ~dir.exists THEN [dir EXCEPT !.error = "FileNotFoundError"]
  ELSE [dir EXCEPT !.log = Append(@, name),
                   !.files = Write(@, name, content)]

\* output_dir.mkdir(parents=True, exist_ok=True)
mkdir(dir) == [dir EXCEPT !.exists = TRUE, !.log = Append(@, "mkdir")]

Figure(name) == [kind |-> "figure", s |-> name]

\* plt.savefig(output_path) and plt.savefig(output_path.with_suffix('.png'))
savefig(dir, stem) ==
  WriteFile(WriteFile(dir, stem \o ".pdf", Figure(stem)), stem \o ".png", Figure(stem))

\* df[col].max(): the largest value that is not NaN, NaN when there is none
ColumnMax(df, col) ==
  LET vals == {df.data[l][col] : l \in Range(df.index)} \ {NaN}
  IN IF vals = {} THEN NaN ELSE CHOOSE x \in vals : \A y \in vals : ~FGt(y, x)

\* main(): create_decision_matrix_plot(combined, args.output).  set_xlim
\* raises ValueError for a limit that is NaN; savefig raises
\* FileNotFoundError when the directory is not there.
CreateDecisionMatrixPlot ==
  /\ bin_step = 3
  /\ output_dir' = IF IsNaN(ColumnMax(combined, MeanRACol))
                 THEN [output_dir EXCEPT !.error = "ValueError"]
                 ELSE savefig(output_dir, "mag_decision_matrix")
  /\ bin_step' = IF output_dir'.error = "None" THEN 4 ELSE 7
  /\ UNCHANGED <<abundance, coverage, joined, combined, bin_report,
                 gene_vars, taxa_vars, pathway_vars>>

\* main(): create_combined_heatmap(combined, args.output)
CreateCombinedHeatmap ==
  /\ bin_step = 4
  /\ output_dir' = savefig(output_dir, "combined_abundance_coverage_heatmap")
  /\ bin_step' = IF output_dir'.error = "None" THEN 5 ELSE 7
  /\ UNCHANGED <<abundance, coverage, joined, combined, bin_report,
                 gene_vars, taxa_vars, pathway_vars>>

\* combined['Classification'].unique(): the labels in the order of their
\* first row
RECURSIVE unique(_)
unique(vals) ==
  IF vals = <<>> THEN <<>>
  ELSE LET rest == unique(SubSeq(vals, 1, Len(vals) - 1))
           last == vals[Len(vals)]
       IN IF last \in Range(rest) THEN rest ELSE Append(rest, last)

\* the files save_results writes for the classes of cls, from cls[k] on
RECURSIVE SaveClasses(_, _, _, _)
SaveClasses(dir, df, cls, k) ==
  IF k > Len(cls) THEN dir
  ELSE IF cls[k] = "Incomplete_Data" THEN SaveClasses(dir, df, cls, k + 1)
  ELSE LET cls_mags == Filter(df, {l \in Range(df.index) :
                                     df.data[l][ClassCol] = Label(cls[k])})
       IN SaveClasses(WriteFile(dir, cls[k] \o "_mags.tsv", to_csv(cls_mags)),
                      df, cls, k + 1)

\* save_results(combined, output_dir): the directory is made, then the full
\* table, one table per class other than Incomplete_Data and the summary
\* are written
save_results(df, dir) ==
  LET made == mkdir(dir)
      full == WriteFile(made, "combined_abundance_coverage.tsv", to_csv(df))
      classes == unique([i \in DOMAIN df.index |-> df.data[df.index[i]][ClassCol].s])
      classified == SaveClasses(full, df, classes, 1)
  IN WriteFile(classified, "summary_statistics.txt",
               [kind |-> "summary", total |-> Len(df.index)])

\* main(): save_results(combined, args.output)
SaveResults ==
  /\ bin_step = 5
  /\ output_dir' = save_results(combined, output_dir)
  /\ bin_step' = IF output_dir'.error = "None" THEN 6 ELSE 7
  /\ UNCHANGED <<abundance, coverage, joined, combined, bin_report,
                 gene_vars, taxa_vars, pathway_vars>>

NextBins ==
  \/ CombineData
  \/ ClassifyMags
  \/ CreateDecisionMatrixPlot
  \/ CreateCombinedHeatmap
  \/ SaveResults

SpecBins == InitBins /\ [][NextBins]_vars

(***************************************************************************)
(* taxonomy_integration.py main()                                          *)
(***************************************************************************)
Percent == 100

\* the additive constant 0.01 of Log2_Ratio
Hundredth == Rat(1, 100)

\* the additive constant 0.01 of Activity_Score
eps == Rat(1, 100)

DNACol == [sample |-> 0, role |-> "DNA_Abundance"]
RNACol == [sample |-> 0, role |-> "RNA_Activity"]
ScoreCol == [sample |-> 0, role |-> "Activity_Score"]
Log2Col == [sample |-> 0, role |-> "Log2_Ratio"]

\* df.loc[taxon].mean(): the mean of the row over the samples, NaN skipped
TaxonMean(df, l) == MeanSkipNa([k \in DOMAIN df.columns |-> df.data[l][df.columns[k]]])

\* np.log2((mtx_mean + 0.01) / (mg_mean + 0.01))
Log2Ratio(v, g) == log2(FDiv(FAdd(v, Hundredth), FAdd(g, Hundredth)))

\* variant: the plain quotient
ActivityScore_no_eps(v, g) == FDiv(v, g)

\* mtx_mean / (mg_mean + 0.01)
ActivityScore(v, g) == FDiv(v, FAdd(g, eps))

\* the table activity_scores as the loop over common_taxa fills it
ActivityScores(mg_rel, mtx_rel) ==
  LET common_taxa == intersection(mg_rel.index, mtx_rel.index)
      columns == <<DNACol, RNACol, ScoreCol, Log2Col>>
      mg_mean(l) == TaxonMean(mg_rel, l)
      mtx_mean(l) == TaxonMean(mtx_rel, l)
  IN DataFrame(common_taxa, IF common_taxa = <<>> THEN <<>> ELSE columns,
               [l \in Range(common_taxa) |->
                  [c \in Range(columns) |->
                     IF c = DNACol THEN mg_mean(l)
                     ELSE IF c = RNACol THEN mtx_mean(l)
                     ELSE IF c = ScoreCol THEN ActivityScore(mtx_mean(l), mg_mean(l))
                     ELSE Log2Ratio(mtx_mean(l), mg_mean(l))]])

\* -1, 0, 1 as x is below, equal to, above y, for two values of a column,
\* neither of them NaN
ValueCmp(x, y) ==
  IF x.kind = "inf" \/ y.kind = "inf" THEN
       LET sx == IF x.kind = "inf" THEN x.n ELSE 0
           sy == IF y.kind = "inf" THEN y.n ELSE 0
       IN IF sx > sy THEN 1 ELSE IF sx < sy THEN -1 ELSE 0
  ELSE IF IsLog(x) /\ IsLog(y) THEN
       BigCmp(BigMul(BigOf(x.n), BigOf(y.d)), BigMul(BigOf(y.n), BigOf(x.d)))
  ELSE IF FGt(x, y) THEN 1 ELSE IF FGt(y, x) THEN -1 ELSE 0

\* variant: rows by non-decreasing value
sort_values_asc(df, col) ==
  LET nums == {l \in Range(df.index) : ~IsNaN(df.data[l][col])}
      nans == SelectSeq(df.index, LAMBDA l : IsNaN(df.data[l][col]))
      InOrder(ix) ==
        \A i, j \in DOMAIN ix :
          i < j => ValueCmp(df.data[ix[i]][col], df.data[ix[j]][col]) <= 0
  IN {DataFrame(ix \o nans, df.columns, df.data) :
        ix \in {p \in Perms(nums) : InOrder(p)}}

\* df.sort_values(col, ascending=False) on a column of floats, with the
\* default kind='quicksort' (not a stable sort) and na_position='last': the
\* rows by non-increasing value, rows of equal value in an order the call
\* does not fix, then the rows whose value is NaN in their order in df.  The
\* set of the tables it may return.
sort_values_desc(df, col) ==
  LET nums == {l \in Range(df.index) : ~IsNaN(df.data[l][col])}
      nans == SelectSeq(df.index, LAMBDA l : IsNaN(df.data[l][col]))
      InOrder(ix) ==
        \A i, j \in DOMAIN ix :
          i < j => ValueCmp(df.data[ix[i]][col], df.data[ix[j]][col]) >= 0
  IN {DataFrame(ix \o nans, df.columns, df.data) :
        ix \in {p \in Perms(nums) : InOrder(p)}}

\* the number of rows of the first plot
TopTaxa == 20

TaxaCols == [i \in Samples |-> Col(i, "S")]

TaxaTables(F) ==
  UNION {{DataFrame(ix, TaxaCols, d) :
            d \in [Range(ix) -> [Range(TaxaCols) -> Counts]]} :
         ix \in Indexes(F)}

InitTaxa ==
  /\ mg_taxa \in TaxaTables(MgFeatures)
  /\ mtx_taxa \in TaxaTables(MtxFeatures)
  /\ taxa_rel = [mg |-> EmptyTable, mtx |-> EmptyTable]
  /\ activity_scores = EmptyTable
  /\ top20_active = EmptyTable
  /\ taxa_step = 1
  /\ NoGenes
  /\ NoBins
  /\ NoPathways

\* main(), up to the rows of its first plot.  Without a common taxon the
\* table has no column Activity_Score, sort_values raises KeyError and
\* nothing is saved (taxa_step 3).
TaxonomyIntegration ==
  /\ taxa_step = 1
  /\ LET mg_taxa_rel == Normalize(mg_taxa, Percent)
         mtx_taxa_rel == Normalize(mtx_taxa, Percent)
         scores == ActivityScores(mg_taxa_rel, mtx_taxa_rel)
     IN /\ taxa_rel' = [mg |-> mg_taxa_rel, mtx |-> mtx_taxa_rel]
        /\ IF scores.index = <<>>
           THEN /\ UNCHANGED <<activity_scores, top20_active>>
                /\ taxa_step' = 3
           ELSE /\ \E sorted \in sort_values_desc(scores, ScoreCol) :
                     /\ activity_scores' = sorted
                     /\ top20_active' = head(sorted, TopTaxa)
                /\ taxa_step' = 2
  /\ UNCHANGED <<mg_taxa, mtx_taxa, gene_vars, bin_vars, pathway_vars>>

NextTaxa == TaxonomyIntegration

SpecTaxa == InitTaxa /\ [][NextTaxa]_vars

(***************************************************************************)
(* pathway.py main()                                                       *)
(***************************************************************************)
MeanDNACol == [sample |-> 0, role |-> "Mean_DNA"]
MeanRNACol == [sample |-> 0, role |-> "Mean_RNA"]

\* the table pathway_ratios as the loop over common_pathways fills it: a row
\* for every common pathway whose genomic mean is greater than 0
PathwayRatios(mg_cpm, mtx_cpm) ==
  LET common_pathways == intersection(mg_cpm.index, mtx_cpm.index)
      mg_mean(l) == TaxonMean(mg_cpm, l)
      mtx_mean(l) == TaxonMean(mtx_cpm, l)
      kept == SelectSeq(common_pathways, LAMBDA l : FGt(mg_mean(l), Num(0)))
      columns == <<Log2Col, MeanDNACol, MeanRNACol>>
  IN DataFrame(kept, IF kept = <<>> THEN <<>> ELSE columns,
               [l \in Range(kept) |->
                  [c \in Range(columns) |->
                     IF c = Log2Col THEN Ratio(mtx_mean(l), mg_mean(l), 1)
                     ELSE IF c = MeanDNACol THEN mg_mean(l)
                     ELSE mtx_mean(l)]])

\* the number of rows of each of the two plots
TopPathways == 20

InitPathway ==
  /\ mg_pathways \in TaxaTables(MgFeatures)
  /\ mtx_pathways \in TaxaTables(MtxFeatures)
  /\ pathway_cpm = [mg |-> EmptyTable, mtx |-> EmptyTable]
  /\ pathway_ratios = EmptyTable
  /\ top_active = EmptyTable
  /\ top_inactive = EmptyTable
  /\ pathway_step = 1
  /\ NoGenes
  /\ NoBins
  /\ NoTaxa

\* main(), up to the rows of its two plots.  When no row was added the table
\* has no column Log2_Ratio, sort_values raises KeyError and nothing is saved
\* (pathway_step 3).
PathwayAnalysis ==
  /\ pathway_step = 1
  /\ LET mg_pathways_cpm == Normalize(mg_pathways, PerMillion)
         mtx_pathways_cpm == Normalize(mtx_pathways, PerMillion)
         ratios == PathwayRatios(mg_pathways_cpm, mtx_pathways_cpm)
     IN /\ pathway_cpm' = [mg |-> mg_pathways_cpm, mtx |-> mtx_pathways_cpm]
        /\ IF ratios.index = <<>>
           THEN /\ UNCHANGED <<pathway_ratios, top_active, top_inactive>>
                /\ pathway_step' = 3
           ELSE /\ \E sorted \in sort_values_desc(ratios, Log2Col) :
                     /\ pathway_ratios' = sorted
                     /\ top_active' = head(sorted, TopPathways)
                     /\ top_inactive' = tail(sorted, TopPathways)
                /\ pathway_step' = 2
  /\ UNCHANGED <<mg_pathways, mtx_pathways, gene_vars, bin_vars, taxa_vars>>

NextPathway == PathwayAnalysis

SpecPathway == InitPathway /\ [][NextPathway]_vars

(***************************************************************************)
(* The gene-level scripts on tables that do not both have the two sample   *)
(* columns: a single sample pair, or a genomic sample without its activity *)
(* sample.                                                                 *)
(***************************************************************************)
\* the first sample, the first two samples
SampleSets == {1..k : k \in Samples}

SampleCols(S, role) ==
  [k \in 1..Cardinality(S) |-> Col(SortedSeq(S)[k], role)]

SampleTables(F, role, S) ==
  UNION {{DataFrame(ix, SampleCols(S, role), d) :
            d \in [Range(ix) -> [Range(SampleCols(S, role)) -> Counts]]} :
         ix \in Indexes(F)}

InitPairs ==
  /\ \E mgS \in SampleSets, mtxS \in SampleSets :
       /\ mgS # Samples \/ mtxS # Samples
       /\ data_mg \in SampleTables(MgFeatures, "MG", mgS)
       /\ data_mtx \in SampleTables(MtxFeatures, "MTX", mtxS)
  /\ results = <<>>
  /\ report = NoReport
  /\ step = 1
  /\ NoBins
  /\ NoTaxa
  /\ NoPathways

SpecPairs == InitPairs /\ [][Next]_vars

(***************************************************************************)
(* The gene-level scripts on one pair of tables of a single sample S1: the *)
(* genomic features g1, g2, g3 with the counts 10, 0, 5 and the activity   *)
(* features g2, g3, g4 with the counts 0, 20, 5, the rows of each table in *)
(* any order.                                                              *)
(***************************************************************************)
ScenarioGenomic == [g1 |-> 10, g2 |-> 0, g3 |-> 5]
ScenarioActivity == [g2 |-> 0, g3 |-> 20, g4 |-> 5]

ScenarioTables(counts, role) ==
  {DataFrame(ix, SampleCols({1}, role),
             [l \in Range(ix) |-> [c \in Range(SampleCols({1}, role)) |-> Num(counts[l])]]) :
     ix \in Perms(DOMAIN counts)}

InitScenario ==
  /\ data_mg \in ScenarioTables(ScenarioGenomic, "MG")
  /\ data_mtx \in ScenarioTables(ScenarioActivity, "MTX")
  /\ results = <<>>
  /\ report = NoReport
  /\ step = 1
  /\ NoBins
  /\ NoTaxa
  /\ NoPathways

SpecScenario == InitScenario /\ [][Next]_vars

(***************************************************************************)
(* The gene-level scripts and the taxon script run on the same counts:     *)
(* depth normalisation with both constants K on one input.                 *)
(***************************************************************************)
AsTaxa(df, role) ==
  DataFrame(df.index, TaxaCols,
            [l \in Range(df.index) |->
               [c \in Range(TaxaCols) |-> df.data[l][Col(c.sample, role)]]])

InitNorm ==
  /\ data_mg \in CountTables(MgFeatures, "MG")
  /\ data_mtx \in CountTables(MtxFeatures, "MTX")
  /\ results = <<>>
  /\ report = NoReport
  /\ step = 1
  /\ mg_taxa = AsTaxa(data_mg, "MG")
  /\ mtx_taxa = AsTaxa(data_mtx, "MTX")
  /\ taxa_rel = [mg |-> EmptyTable, mtx |-> EmptyTable]
  /\ activity_scores = EmptyTable
  /\ top20_active = EmptyTable
  /\ taxa_step = 1
  /\ NoBins
  /\ NoPathways

NextNorm ==
  \/ LoadAndPrepare
  \/ NormalizeData
  \/ TaxonomyIntegration

SpecNorm == InitNorm /\ [][NextNorm]_vars

(***************************************************************************)
(* The gene-level scripts, the taxon script and the pathway script run on  *)
(* the same counts of two features, which both tables list in the same     *)
(* order.                                                                  *)
(***************************************************************************)
SharedIndex == <<"g1", "g2">>

BothRows(F, role) == {t \in CountTables(F, role) : t.index = SharedIndex}

InitAll ==
  /\ data_mg \in BothRows(MgFeatures, "MG")
  /\ data_mtx \in BothRows(MgFeatures, "MTX")
  /\ results = <<>>
  /\ report = NoReport
  /\ step = 1
  /\ mg_taxa = AsTaxa(data_mg, "MG")
  /\ mtx_taxa = AsTaxa(data_mtx, "MTX")
  /\ taxa_rel = [mg |-> EmptyTable, mtx |-> EmptyTable]
  /\ activity_scores = EmptyTable
  /\ top20_active = EmptyTable
  /\ taxa_step = 1
  /\ mg_pathways = AsTaxa(data_mg, "MG")
  /\ mtx_pathways = AsTaxa(data_mtx, "MTX")
  /\ pathway_cpm = [mg |-> EmptyTable, mtx |-> EmptyTable]
  /\ pathway_ratios = EmptyTable
  /\ top_active = EmptyTable
  /\ top_inactive = EmptyTable
  /\ pathway_step = 1
  /\ NoBins

NextAll ==
  \/ LoadAndPrepare
  \/ NormalizeData
  \/ CalculateExpressionRatios
  \/ TaxonomyIntegration
  \/ PathwayAnalysis

SpecAll == InitAll /\ [][NextAll]_vars

(***************************************************************************)
(* Properties.                                                             *)
(***************************************************************************)
File(name) == read_csv(results[name])

\* the integer a float value holds (raw counts)
IntOf(x) == x.n \div x.d

\* the total of column c of a table of raw counts
RECURSIVE CountTotal(_, _, _)
CountTotal(df, c, i) ==
  IF i = 0 THEN 0 ELSE IntOf(df.data[df.index[i]][c]) + CountTotal(df, c, i - 1)

Total(df, c) == CountTotal(df, c, Len(df.index))

\* C1: in the gene-level ratio step every aligned feature and sample pair
\* with defined normalised values v >= 0 and g >= 0 has a defined finite
\* ratio log2((v + 1) / (g + 1)): the denominator g + 1 is not zero, and
\* v = g = 0 gives the ratio 0 (the logarithm of 1).
C1_RatioDefined ==
  Exists("expression_ratios.csv") =>
    LET mg == File("mg_genes_cpm.csv")
        mtx == File("mtx_transcripts_cpm.csv")
        er == File("expression_ratios.csv")
    IN \A l \in Range(er.index) : \A i \in Samples :
         LET v == mtx.data[l][Col(i, "MTX")]
             g == mg.data[l][Col(i, "MG")]
             r == er.data[l][Col(i, "ratio")]
         IN (IsNum(v) /\ IsNum(g) /\ v.n >= 0 /\ g.n >= 0) =>
              /\ g.n + g.d # 0
              /\ IsLog(r)
              /\ LET q == Rat((v.n + v.d) * g.d, (g.n + g.d) * v.d)
                 IN r.n = q.n /\ r.d = q.d
              /\ (v.n = 0 /\ g.n = 0 => r.n = 1 /\ r.d = 1)

C1_Witness ==
  /\ Exists("expression_ratios.csv")
  /\ LET mg == File("mg_genes_cpm.csv")
         mtx == File("mtx_transcripts_cpm.csv")
         er == File("expression_ratios.csv")
     IN \E l \in Range(er.index) : \E i \in Samples :
          /\ mtx.data[l][Col(i, "MTX")] = Num(0)
          /\ mg.data[l][Col(i, "MG")] = Num(0)
          /\ er.data[l][Col(i, "ratio")] = [kind |-> "log", n |-> 1, d |-> 1]

\* C2: after aggregation the three reported counts (highly, moderately,
\* under-expressed) sum to the number of aligned features.
C2_BandsPartition ==
  step = 4 =>
    report.highly_expressed_count + report.moderately_expressed_count
      + report.under_expressed_count = Len(File("expression_ratios.csv").index)

\* C3: depth normalisation, K = 1,000,000 in normalize_cpm and K = 100 in the
\* taxon script: in every sample whose input total is not zero each
\* normalised value equals count / total * K and the column sums to K.
Normalized(input, output, K) ==
  /\ output.index = input.index
  /\ output.columns = input.columns
  /\ \A k \in DOMAIN input.columns :
       LET c == input.columns[k]
           total == Total(input, c)
       IN total # 0 =>
            /\ \A l \in Range(input.index) :
                 /\ IsNum(output.data[l][c])
                 /\ output.data[l][c].n * total
                      = IntOf(input.data[l][c]) * K * output.data[l][c].d
            /\ SumSkipNa(output, c, Len(output.index)) = Num(K)

C3_DepthNormalization ==
  /\ Exists("mg_genes_cpm.csv") =>
       /\ Normalized(File("mg_genes_aligned.csv"), File("mg_genes_cpm.csv"), 1000000)
       /\ Normalized(File("mtx_transcripts_aligned.csv"),
                     File("mtx_transcripts_cpm.csv"), 1000000)
  /\ taxa_step \in {2, 3} =>
       /\ Normalized(mg_taxa, taxa_rel.mg, 100)
       /\ Normalized(mtx_taxa, taxa_rel.mtx, 100)

C3_Witness ==
  /\ Exists("mg_genes_cpm.csv")
  /\ taxa_step = 2
  /\ LET aligned == File("mg_genes_aligned.csv")
     IN /\ Len(aligned.index) = 2
        /\ \E k \in DOMAIN aligned.columns :
             /\ Total(aligned, aligned.columns[k]) = 2
             /\ Total(mg_taxa, TaxaCols[k]) = 2
        /\ \E k \in DOMAIN aligned.columns : Total(aligned, aligned.columns[k]) = 1

\* C4: alignment yields two tables whose rows are both exactly the common
\* features of the two inputs, in the same order in both, that order being
\* the order of the genomic table; the rows keep their values.
C4_Alignment ==
  Exists("mg_genes_aligned.csv") =>
    LET mg == File("mg_genes_aligned.csv")
        mtx == File("mtx_transcripts_aligned.csv")
        A == data_mg.index
        B == data_mtx.index
        PosInA(l) == CHOOSE i \in DOMAIN A : A[i] = l
    IN /\ mg.index = mtx.index
       /\ Range(mg.index) = Range(A) \cap Range(B)
       /\ Len(mg.index) = Cardinality(Range(A) \cap Range(B))
       /\ \A i, j \in DOMAIN mg.index :
            i < j => PosInA(mg.index[i]) < PosInA(mg.index[j])
       /\ \A l \in Range(mg.index) :
            mg.data[l] = data_mg.data[l] /\ mtx.data[l] = data_mtx.data[l]

C4_Witness ==
  /\ Exists("mg_genes_aligned.csv")
  /\ data_mg.index = <<"g2", "g1">>
  /\ data_mtx.index = <<"g1", "g2">>
  /\ File("mg_genes_aligned.csv").index = <<"g2", "g1">>
  /\ File("mtx_transcripts_aligned.csv").index = <<"g2", "g1">>

\* C5: every combined record gets exactly one label of the closed set of
\* five, the one of the five mutually exclusive cases its pair
\* (Mean_RA, Mean_Cov) is in, undefined values included.
Labels ==
  {"High_Abundance_High_Coverage", "High_Abundance_Low_Coverage",
   "Low_Abundance_High_Coverage", "Low_Abundance_Low_Coverage", "Incomplete_Data"}

\* the labels whose case the pair (ra, cov) is in
CasesOf(ra, cov) ==
  {lab \in Labels :
     IF IsNaN(ra) \/ IsNaN(cov) THEN lab = "Incomplete_Data"
     ELSE LET hiRA == ra.n > RAThreshold * ra.d
              hiCov == cov.n > CovThreshold * cov.d
          IN lab = (IF hiRA THEN (IF hiCov THEN "High_Abundance_High_Coverage"
                                  ELSE "High_Abundance_Low_Coverage")
                    ELSE (IF hiCov THEN "Low_Abundance_High_Coverage"
                          ELSE "Low_Abundance_Low_Coverage"))}

C5_ExactlyOneLabel ==
  bin_step = 3 =>
    \A l \in Range(combined.index) :
      LET row == combined.data[l]
      IN /\ row[ClassCol].s \in Labels
         /\ CasesOf(row[MeanRACol], row[MeanCovCol]) = {row[ClassCol].s}

C5_Witness ==
  /\ bin_step = 3
  /\ \E l \in Range(combined.index) :
       /\ combined.data[l][MeanRACol] = Rat(11, 2)
       /\ combined.data[l][MeanCovCol] = Num(79)
       /\ combined.data[l][ClassCol] = Label("High_Abundance_Low_Coverage")

\* C6: a combined record whose Mean_RA or Mean_Cov is undefined is labelled
\* Incomplete_Data whatever the other value is, never Low_* or High_*.
C6_IncompleteFirst ==
  bin_step = 3 =>
    \A l \in Range(combined.index) :
      LET row == combined.data[l]
      IN (IsNaN(row[MeanRACol]) \/ IsNaN(row[MeanCovCol])) =>
           row[ClassCol] = Label("Incomplete_Data")

C6_Witness ==
  /\ bin_step = 3
  /\ \E l \in Range(combined.index) :
       /\ combined.data[l][MeanRACol] = Num(6)
       /\ IsNaN(combined.data[l][MeanCovCol])
       /\ combined.data[l][ClassCol] = Label("Incomplete_Data")

\* C7: a value equal to its threshold does not exceed it, on both axes:
\* Mean_RA = 5 is on the Low_Abundance side, Mean_Cov = 80 on the
\* Low_Coverage side; only strictly greater values are High.
LowAbundance == {"Low_Abundance_High_Coverage", "Low_Abundance_Low_Coverage"}
LowCoverage == {"High_Abundance_Low_Coverage", "Low_Abundance_Low_Coverage"}
HighAbundance == {"High_Abundance_High_Coverage", "High_Abundance_Low_Coverage"}
HighCoverage == {"High_Abundance_High_Coverage", "Low_Abundance_High_Coverage"}

C7_TieIsLow ==
  bin_step = 3 =>
    \A l \in Range(combined.index) :
      LET row == combined.data[l]
          ra == row[MeanRACol]
          cov == row[MeanCovCol]
          lab == row[ClassCol].s
      IN (IsNum(ra) /\ IsNum(cov)) =>
           /\ ra = Num(5) => lab \in LowAbundance
           /\ cov = Num(80) => lab \in LowCoverage
           /\ lab \in HighAbundance <=> ra.n > 5 * ra.d
           /\ lab \in HighCoverage <=> cov.n > 80 * cov.d

C7_Witness ==
  /\ bin_step = 3
  /\ \E l \in Range(combined.index) :
       /\ combined.data[l][MeanRACol] = Num(5)
       /\ combined.data[l][MeanCovCol] = Num(80)
       /\ combined.data[l][ClassCol] = Label("Low_Abundance_Low_Coverage")

\* C8: when the two input tables share no feature, alignment fails and no
\* downstream step runs: neither the aligned tables nor any later file is
\* written.
NoCommonFeature == Range(data_mg.index) \cap Range(data_mtx.index) = {}

C8_EmptyAlignmentFails ==
  NoCommonFeature => DOMAIN results = {} /\ step = 1

\* C9: in a sample whose input total is zero every normalised entry is NaN,
\* never zero; the saved normalised table holds it as NaN and every
\* per-sample ratio computed from that sample is NaN.
ZeroTotal(name, c) == Total(File(name), c) = 0

C9_ZeroDepthIsNaN ==
  /\ Exists("mg_genes_cpm.csv") =>
       /\ \A i \in Samples : ZeroTotal("mg_genes_aligned.csv", Col(i, "MG")) =>
            \A k \in DOMAIN results["mg_genes_cpm.csv"].rows :
              /\ results["mg_genes_cpm.csv"].rows[k].cells[Col(i, "MG")] = EmptyField
              /\ IsNaN(File("mg_genes_cpm.csv").data[
                         File("mg_genes_cpm.csv").index[k]][Col(i, "MG")])
       /\ \A i \in Samples : ZeroTotal("mtx_transcripts_aligned.csv", Col(i, "MTX")) =>
            \A k \in DOMAIN results["mtx_transcripts_cpm.csv"].rows :
              /\ results["mtx_transcripts_cpm.csv"].rows[k].cells[Col(i, "MTX")] = EmptyField
              /\ IsNaN(File("mtx_transcripts_cpm.csv").data[
                         File("mtx_transcripts_cpm.csv").index[k]][Col(i, "MTX")])
  /\ Exists("expression_ratios.csv") =>
       \A i \in Samples :
         (ZeroTotal("mg_genes_aligned.csv", Col(i, "MG"))
            \/ ZeroTotal("mtx_transcripts_aligned.csv", Col(i, "MTX"))) =>
           \A l \in Range(File("expression_ratios.csv").index) :
             IsNaN(File("expression_ratios.csv").data[l][Col(i, "ratio")])

C9_Witness ==
  /\ Exists("expression_ratios.csv")
  /\ Len(File("expression_ratios.csv").index) = 2
  /\ ZeroTotal("mg_genes_aligned.csv", Col(1, "MG"))
  /\ ~ZeroTotal("mtx_transcripts_aligned.csv", Col(1, "MTX"))
  /\ ~ZeroTotal("mg_genes_aligned.csv", Col(2, "MG"))
  /\ ~ZeroTotal("mtx_transcripts_aligned.csv", Col(2, "MTX"))
  /\ \A l \in Range(File("expression_ratios.csv").index) :
       /\ IsNaN(File("expression_ratios.csv").data[l][Col(1, "ratio")])
       /\ IsLog(File("expression_ratios.csv").data[l][Col(2, "ratio")])

\* C10: alignment and normalisation errors abort the run: with an empty
\* alignment no aligned table, and with an empty alignment or a sample of
\* zero total no normalised table and no expression_ratios.csv, is written.
SomeZeroTotal ==
  /\ Exists("mg_genes_aligned.csv")
  /\ \E i \in Samples : \/ ZeroTotal("mg_genes_aligned.csv", Col(i, "MG"))
                        \/ ZeroTotal("mtx_transcripts_aligned.csv", Col(i, "MTX"))

C10_ErrorsAbort ==
  /\ NoCommonFeature =>
       ~Exists("mg_genes_aligned.csv") /\ ~Exists("mtx_transcripts_aligned.csv")
  /\ (NoCommonFeature \/ SomeZeroTotal) =>
       /\ ~Exists("mg_genes_cpm.csv")
       /\ ~Exists("mtx_transcripts_cpm.csv")
       /\ ~Exists("expression_ratios.csv")

\* C11: when the tables hold exactly one sample pair, the StdDev written for
\* every feature is 0.
RatioCols(df) == SelectSeq(df.columns, LAMBDA c : c.role = "ratio")

C11_SingleSampleStdIsZero ==
  Exists("expression_ratios.csv") =>
    LET er == File("expression_ratios.csv")
    IN Len(RatioCols(er)) = 1 =>
         \A l \in Range(er.index) : er.data[l][StdCol] = Num(0)

\* C12: swapping the activity and the genomic value negates the log-ratio:
\* the quotient under the logarithm of the ratio of (g, v) is the reciprocal
\* of the one of (v, g), for every ratio of the gene table (pseudocount 1)
\* and every Log2_Ratio of the taxon table (0.01), v and g defined and >= 0.
Reciprocal(r, s) == IsLog(r) /\ IsLog(s) /\ r.n = s.d /\ r.d = s.n

NonNegative(x) == IsNum(x) /\ x.n >= 0

C12_RatioSymmetry ==
  /\ Exists("expression_ratios.csv") =>
       LET mg == File("mg_genes_cpm.csv")
           mtx == File("mtx_transcripts_cpm.csv")
           er == File("expression_ratios.csv")
       IN \A l \in Range(er.index) : \A i \in Samples :
            LET v == mtx.data[l][Col(i, "MTX")]
                g == mg.data[l][Col(i, "MG")]
            IN (NonNegative(v) /\ NonNegative(g)) =>
                 Reciprocal(er.data[l][Col(i, "ratio")], Ratio(g, v, pseudocount))
  /\ taxa_step = 2 =>
       \A l \in Range(activity_scores.index) :
         LET v == activity_scores.data[l][RNACol]
             g == activity_scores.data[l][DNACol]
         IN (NonNegative(v) /\ NonNegative(g)) =>
              Reciprocal(activity_scores.data[l][Log2Col], Log2Ratio(g, v))

C12_Witness ==
  /\ Exists("expression_ratios.csv")
  /\ taxa_step = 2
  /\ \E l \in Range(File("expression_ratios.csv").index) :
       /\ File("mtx_transcripts_cpm.csv").data[l][Col(1, "MTX")] = Num(1000000)
       /\ File("mg_genes_cpm.csv").data[l][Col(1, "MG")] = Num(500000)
       /\ File("expression_ratios.csv").data[l][Col(1, "ratio")]
            = [kind |-> "log", n |-> 1000001, d |-> 500001]
       /\ Ratio(Num(500000), Num(1000000), pseudocount)
            = [kind |-> "log", n |-> 500001, d |-> 1000001]
  /\ \E l \in Range(activity_scores.index) :
       /\ activity_scores.data[l][RNACol] = Num(100)
       /\ activity_scores.data[l][DNACol] = Num(25)
       /\ activity_scores.data[l][Log2Col] = [kind |-> "log", n |-> 10001, d |-> 2501]

\* C13: with the pseudocount 1 a ratio whose activity or genomic value is 0
\* is finite; ratio(0, g) is negative for g > 0 and not below
\* log2(1 / (g + 1)); ratio(v, 0) is positive for v > 0 and not above
\* log2((v + 1) / 1).
C13_BoundedAtZero ==
  Exists("expression_ratios.csv") =>
    LET mg == File("mg_genes_cpm.csv")
        mtx == File("mtx_transcripts_cpm.csv")
        er == File("expression_ratios.csv")
    IN \A l \in Range(er.index) : \A i \in Samples :
         LET v == mtx.data[l][Col(i, "MTX")]
             g == mg.data[l][Col(i, "MG")]
             r == er.data[l][Col(i, "ratio")]
         IN /\ (v = Num(0) /\ NonNegative(g)) =>
                 /\ IsLog(r)
                 /\ g.n > 0 => r.n < r.d
                 /\ r.n * (g.n + pseudocount * g.d) >= pseudocount * g.d * r.d
            /\ (g = Num(0) /\ NonNegative(v)) =>
                 /\ IsLog(r)
                 /\ v.n > 0 => r.n > r.d
                 /\ r.n * pseudocount * v.d <= (v.n + pseudocount * v.d) * r.d

C13_Witness ==
  /\ Exists("expression_ratios.csv")
  /\ LET mg == File("mg_genes_cpm.csv")
         mtx == File("mtx_transcripts_cpm.csv")
         er == File("expression_ratios.csv")
     IN /\ \E l \in Range(er.index) : \E i \in Samples :
             /\ mtx.data[l][Col(i, "MTX")] = Num(0)
             /\ mg.data[l][Col(i, "MG")] = Num(1000000)
             /\ er.data[l][Col(i, "ratio")] = [kind |-> "log", n |-> 1, d |-> 1000001]
        /\ \E l \in Range(er.index) : \E i \in Samples :
             /\ mtx.data[l][Col(i, "MTX")] = Num(500000)
             /\ mg.data[l][Col(i, "MG")] = Num(0)
             /\ er.data[l][Col(i, "ratio")] = [kind |-> "log", n |-> 500001, d |-> 1]

\* C14: every feature of the aligned set has exactly one row in the result
\* table, with a defined ratio when its two values are defined, in the gene,
\* the pathway and the taxon variant; a feature whose genomic value is 0
\* keeps its row.
OneRowEach(table, mg, mtx) ==
  /\ Range(table.index) = Range(mg.index) \cap Range(mtx.index)
  /\ Len(table.index) = Cardinality(Range(table.index))

C14_OneRecordPerAlignedFeature ==
  /\ Exists("expression_ratios.csv") =>
       /\ OneRowEach(File("expression_ratios.csv"), data_mg, data_mtx)
       /\ \A l \in Range(File("expression_ratios.csv").index) : \A i \in Samples :
            (NonNegative(File("mtx_transcripts_cpm.csv").data[l][Col(i, "MTX")])
               /\ NonNegative(File("mg_genes_cpm.csv").data[l][Col(i, "MG")])) =>
              IsLog(File("expression_ratios.csv").data[l][Col(i, "ratio")])
  /\ pathway_step \in {2, 3} =>
       /\ OneRowEach(pathway_ratios, mg_pathways, mtx_pathways)
       /\ \A l \in Range(pathway_ratios.index) :
            (NonNegative(pathway_ratios.data[l][MeanRNACol])
               /\ NonNegative(pathway_ratios.data[l][MeanDNACol])) =>
              IsLog(pathway_ratios.data[l][Log2Col])
  /\ taxa_step \in {2, 3} =>
       /\ OneRowEach(activity_scores, mg_taxa, mtx_taxa)
       /\ \A l \in Range(activity_scores.index) :
            (NonNegative(activity_scores.data[l][RNACol])
               /\ NonNegative(activity_scores.data[l][DNACol])) =>
              IsLog(activity_scores.data[l][Log2Col])

\* C15: the three counts are those of the bands (2, +inf), [0, 2] and
\* (-inf, 0) of the mean ratio: a mean of exactly 0 or exactly 2 is counted
\* as moderately expressed.
MeansIn(er, lo_closed, hi_closed) ==
  {i \in DOMAIN er.index :
     LET m == er.data[er.index[i]][MeanCol]
     IN /\ ~IsNaN(m)
        /\ ~MeanLt(m, lo_closed)
        /\ ~MeanGt(m, hi_closed)}

C15_BoundaryIsModerate ==
  step = 4 =>
    LET er == File("expression_ratios.csv")
    IN /\ report.moderately_expressed_count = Cardinality(MeansIn(er, 0, 2))
       /\ report.highly_expressed_count
            = Cardinality({i \in DOMAIN er.index : MeanGt(er.data[er.index[i]][MeanCol], 2)})
       /\ report.under_expressed_count
            = Cardinality({i \in DOMAIN er.index : MeanLt(er.data[er.index[i]][MeanCol], 0)})

\* C16: a NaN per-sample ratio is left out of the mean and of the standard
\* deviation of its feature, not counted as 0: with at least one defined
\* ratio, Mean_Log2_Ratio is the mean of the defined ratios only (as many
\* terms as defined ratios, the product of their quotients), and StdDev is
\* taken over the defined ratios only.
DefinedRatios(er, l) ==
  LET cols == SelectSeq(RatioCols(er), LAMBDA c : ~IsNaN(er.data[l][c]))
  IN [k \in DOMAIN cols |-> er.data[l][cols[k]]]

RECURSIVE Numerators(_)
Numerators(rs) ==
  IF rs = <<>> THEN <<1>> ELSE BigMul(Numerators(Tail(rs)), BigOf(Head(rs).n))

RECURSIVE Denominators(_)
Denominators(rs) ==
  IF rs = <<>> THEN <<1>> ELSE BigMul(Denominators(Tail(rs)), BigOf(Head(rs).d))

C16_NaNExcluded ==
  Exists("expression_ratios.csv") =>
    LET er == File("expression_ratios.csv")
    IN \A l \in Range(er.index) :
         LET rs == DefinedRatios(er, l)
             m == er.data[l][MeanCol]
             sd == er.data[l][StdCol]
         IN /\ rs # <<>> =>
                 /\ m.kind = "mean"
                 /\ m.cnt = Len(rs)
                 /\ BigCmp(m.pn, Numerators(rs)) = 0
                 /\ BigCmp(m.pd, Denominators(rs)) = 0
            /\ Len(rs) >= 2 => sd.kind = "std" /\ sd.of = rs
            /\ Len(rs) < 2 => IsNaN(sd)

C16_Witness ==
  /\ Exists("expression_ratios.csv")
  /\ LET er == File("expression_ratios.csv")
     IN \E l \in Range(er.index) :
          /\ IsNaN(er.data[l][Col(1, "ratio")])
          /\ er.data[l][Col(2, "ratio")] = [kind |-> "log", n |-> 1000001, d |-> 500001]
          /\ er.data[l][MeanCol]
               = [kind |-> "mean", pn |-> BigOf(1000001), pd |-> BigOf(500001), cnt |-> 1]
          /\ IsNaN(er.data[l][StdCol])

\* C17: the saved tables are ranked by their statistic in the stated
\* direction (pathways by Log2_Ratio and taxa by Activity_Score, both
\* descending with the NaN rows last; highly expressed genes by
\* Mean_Log2_Ratio descending, under-expressed genes ascending), and the
\* top and bottom views are the first and the last rows of the ranked
\* table, N of them or all when it has fewer.
Descending(df, col) ==
  \A i, j \in DOMAIN df.index :
    i < j =>
      LET x == df.data[df.index[i]][col]
          y == df.data[df.index[j]][col]
      IN /\ IsNaN(x) => IsNaN(y)
         /\ (~IsNaN(x) /\ ~IsNaN(y)) => ValueCmp(x, y) >= 0

MeansOrdered(df, sign) ==
  \A i, j \in DOMAIN df.index :
    i < j => sign * MeanCmp(df.data[df.index[i]][MeanCol],
                            df.data[df.index[j]][MeanCol]) >= 0

FirstRows(view, df, n) ==
  /\ view.index = SubSeq(df.index, 1, IF Len(df.index) < n THEN Len(df.index) ELSE n)
  /\ \A l \in Range(view.index) : \A c \in Range(view.columns) :
       view.data[l][c] = df.data[l][c]

LastRows(view, df, n) ==
  /\ view.index = SubSeq(df.index,
                         IF Len(df.index) < n THEN 1 ELSE Len(df.index) - n + 1,
                         Len(df.index))
  /\ \A l \in Range(view.index) : \A c \in Range(view.columns) :
       view.data[l][c] = df.data[l][c]

Position(ix, l) == CHOOSE i \in DOMAIN ix : ix[i] = l

C18_StableRanking ==
  /\ taxa_step = 2 =>
       \A i, j \in DOMAIN activity_scores.index :
         LET a == activity_scores.index[i]
             b == activity_scores.index[j]
             x == activity_scores.data[a][ScoreCol]
             y == activity_scores.data[b][ScoreCol]
         IN (i < j /\ ~IsNaN(x) /\ ~IsNaN(y) /\ ValueCmp(x, y) = 0) =>
              Position(mg_taxa.index, a) < Position(mg_taxa.index, b)
  /\ step = 4 =>
       \A name \in {"highly_expressed_genes.csv", "under_expressed_genes.csv"} :
         \A i, j \in DOMAIN File(name).index :
           LET a == File(name).index[i]
               b == File(name).index[j]
           IN (i < j /\ MeanCmp(File(name).data[a][MeanCol],
                                File(name).data[b][MeanCol]) = 0) =>
                Position(File("expression_ratios.csv").index, a)
                  < Position(File("expression_ratios.csv").index, b)

\* C19: when the activity table lacks the column named by the substitution
\* of MTX for MG in some genomic sample column, and only then, the ratio
\* run ends with an error; it then has written neither
\* expression_ratios.csv nor a list of extreme genes, and has printed no
\* count.
MissingPair ==
  \E c \in Range(File("mg_genes_cpm.csv").columns) :
    /\ c.role = "MG"
    /\ Col(c.sample, "MTX") \notin Range(File("mtx_transcripts_cpm.csv").columns)

RatioFiles ==
  {"expression_ratios.csv", "highly_expressed_genes.csv", "under_expressed_genes.csv"}

C19_MissingPairAborts ==
  step \in {4, 5} =>
    /\ MissingPair <=> step = 5
    /\ MissingPair =>
         /\ DOMAIN results \cap RatioFiles = {}
         /\ report.highly_expressed_count = -1
         /\ report.top_highly = NoReport.top_highly
    /\ ~MissingPair => RatioFiles \subseteq DOMAIN results

C19_Witness ==
  /\ step = 5
  /\ data_mg.columns = <<Col(1, "MG"), Col(2, "MG")>>
  /\ data_mtx.columns = <<Col(1, "MTX")>>
  /\ Len(File("mg_genes_cpm.csv").index) = 2
  /\ MissingPair
  /\ DOMAIN results = {"mg_genes_aligned.csv", "mtx_transcripts_aligned.csv",
                       "mg_genes_cpm.csv", "mtx_transcripts_cpm.csv"}

\* C20: alignment comes before normalisation in every variant: the totals a
\* sample is divided by are taken over the aligned features only, so that in
\* every sample whose aligned total is not zero the normalised values of the
\* aligned features sum to K (1,000,000 for genes and pathways, 100 for
\* taxa).
AlignedSumsToK(raw, normalised, common, K) ==
  \A k \in DOMAIN raw.columns :
    LET c == raw.columns[k]
    IN Total(loc(raw, common), c) # 0 =>
         SumSkipNa(loc(normalised, common), c, Len(common)) = Num(K)

C20_AlignedBeforeNormalized ==
  /\ Exists("mg_genes_cpm.csv") =>
       LET common == intersection(data_mg.index, data_mtx.index)
       IN /\ File("mg_genes_cpm.csv").index = common
          /\ File("mtx_transcripts_cpm.csv").index = common
          /\ AlignedSumsToK(data_mg, File("mg_genes_cpm.csv"), common, 1000000)
          /\ AlignedSumsToK(data_mtx, File("mtx_transcripts_cpm.csv"), common, 1000000)
  /\ taxa_step \in {2, 3} =>
       LET common == intersection(mg_taxa.index, mtx_taxa.index)
       IN /\ AlignedSumsToK(mg_taxa, taxa_rel.mg, common, 100)
          /\ AlignedSumsToK(mtx_taxa, taxa_rel.mtx, common, 100)
  /\ pathway_step \in {2, 3} =>
       LET common == intersection(mg_pathways.index, mtx_pathways.index)
       IN /\ AlignedSumsToK(mg_pathways, pathway_cpm.mg, common, 1000000)
          /\ AlignedSumsToK(mtx_pathways, pathway_cpm.mtx, common, 1000000)

\* C21: alignment reports the sizes |A| and |B| of the two tables, the
\* number |C| of common features and the two exclusive counts; the genomic
\* exclusive count is |A| - |C|, the number of features of A not in B, and
\* the activity exclusive count is |B| - |C|, the number of features of B
\* not in A; a table aligned with a table of the same features reports no
\* exclusive feature.
C21_ExclusiveCounts ==
  step >= 2 =>
    LET A == Range(data_mg.index)
        B == Range(data_mtx.index)
    IN /\ report.mg_count = Cardinality(A)
       /\ report.mtx_count = Cardinality(B)
       /\ report.common = Cardinality(A \cap B)
       /\ report.mg_specific = report.mg_count - report.common
       /\ report.mg_specific = Cardinality(A \ B)
       /\ report.mtx_specific = report.mtx_count - report.common
       /\ report.mtx_specific = Cardinality(B \ A)
       /\ (A = B => report.mg_specific = 0 /\ report.mtx_specific = 0)

C21_Witness ==
  /\ step >= 2
  /\ Range(data_mg.index) = {"g1", "g2"}
  /\ Range(data_mtx.index) = {"g2", "g3"}
  /\ report.mg_count = 2
  /\ report.common = 1
  /\ report.mg_specific = 1
  /\ report.mtx_specific = 1

\* C22: the Activity_Score of a taxon is v / (g + 0.01), v and g being its
\* mean percentages over the samples in the activity and in the genomic
\* table; for v >= 0 and g >= 0 the divisor is not zero and the score is a
\* number that is not negative; it is kept as it is, no logarithm taken, in
\* a column of its own beside Log2_Ratio.
C22_ActivityScore ==
  taxa_step = 2 =>
    \A l \in Range(activity_scores.index) :
      LET v == TaxonMean(taxa_rel.mtx, l)
          g == TaxonMean(taxa_rel.mg, l)
          score == activity_scores.data[l][ScoreCol]
      IN (NonNegative(v) /\ NonNegative(g)) =>
           /\ FAdd(g, eps) # Num(0)
           /\ NonNegative(score)
           /\ FMul(score, FAdd(g, eps)) = v
           /\ ScoreCol # Log2Col
           /\ {ScoreCol, Log2Col} \subseteq Range(activity_scores.columns)
           /\ IsLog(activity_scores.data[l][Log2Col])

C22_Witness ==
  /\ taxa_step = 2
  /\ \E l \in Range(activity_scores.index) :
       /\ TaxonMean(taxa_rel.mg, l) = Num(0)
       /\ TaxonMean(taxa_rel.mtx, l) = Num(50)
       /\ activity_scores.data[l][ScoreCol] = Num(5000)

\* C23: the constant added to the divisor of Activity_Score is not the
\* constant added in Log2_Ratio: the score of a taxon of positive activity
\* is not v / (g + p), p being the constant of its Log2_Ratio.
C23_EpsDistinct ==
  taxa_step = 2 =>
    \A l \in Range(activity_scores.index) :
      LET v == activity_scores.data[l][RNACol]
          g == activity_scores.data[l][DNACol]
      IN (NonNegative(v) /\ NonNegative(g) /\ v.n > 0) =>
           activity_scores.data[l][ScoreCol] # FDiv(v, FAdd(g, Hundredth))

\* C24: on the genomic table g1, g2, g3 with the S1 counts 10, 0, 5 and the
\* activity table g2, g3, g4 with the S1 counts 0, 20, 5 the aligned
\* features are g2 and g3, the normalised column of each table sums to
\* 1,000,000, the ratio of g2 with the pseudocount 1 is negative and the
\* ratio of g3 is a finite value, here 0.
ScenarioRun ==
  /\ step = 4
  /\ \A l \in DOMAIN ScenarioGenomic : data_mg.data[l][Col(1, "MG")] = Num(ScenarioGenomic[l])
  /\ \A l \in DOMAIN ScenarioActivity : data_mtx.data[l][Col(1, "MTX")] = Num(ScenarioActivity[l])

ScenarioAligned ==
  /\ Range(File("mg_genes_aligned.csv").index) = {"g2", "g3"}
  /\ Range(File("mtx_transcripts_aligned.csv").index) = {"g2", "g3"}
  /\ report.mg_totals[Col(1, "MG")] = Num(1000000)
  /\ report.mtx_totals[Col(1, "MTX")] = Num(1000000)
  /\ ColumnSums(File("mg_genes_cpm.csv"))[Col(1, "MG")] = Num(1000000)
  /\ ColumnSums(File("mtx_transcripts_cpm.csv"))[Col(1, "MTX")] = Num(1000000)

ScenarioRatio(l) == File("expression_ratios.csv").data[l][Col(1, "ratio")]

C24_Scenario ==
  ScenarioRun =>
    /\ ScenarioAligned
    /\ IsLog(ScenarioRatio("g2")) /\ ScenarioRatio("g2").n < ScenarioRatio("g2").d
    /\ ScenarioRatio("g3") = [kind |-> "log", n |-> 1, d |-> 1]

\* C24 as amended: on the same two tables the aligned features are g2 and
\* g3, the normalised column of each table sums to 1,000,000, and the ratio
\* of g2, whose normalised value is 0 in both tables, is log2(1 / 1) = 0,
\* as is the ratio of g3, whose normalised value is 1,000,000 in both.
C24_ScenarioZeroRatio ==
  ScenarioRun =>
    /\ ScenarioAligned
    /\ File("mg_genes_cpm.csv").data["g2"][Col(1, "MG")] = Num(0)
    /\ File("mtx_transcripts_cpm.csv").data["g2"][Col(1, "MTX")] = Num(0)
    /\ ScenarioRatio("g2") = [kind |-> "log", n |-> 1, d |-> 1]
    /\ File("mg_genes_cpm.csv").data["g3"][Col(1, "MG")] = Num(1000000)
    /\ File("mtx_transcripts_cpm.csv").data["g3"][Col(1, "MTX")] = Num(1000000)
    /\ ScenarioRatio("g3") = [kind |-> "log", n |-> 1, d |-> 1]

C24_Witness ==
  /\ ScenarioRun
  /\ data_mg.index = <<"g1", "g2", "g3">>
  /\ data_mtx.index = <<"g2", "g3", "g4">>
  /\ File("expression_ratios.csv").index = <<"g2", "g3">>
  /\ ScenarioRatio("g2") = [kind |-> "log", n |-> 1, d |-> 1]

\* C25: no component changes the table it is given: after classify_mags has
\* returned, the table object main() passed to it, the one combine_data
\* built, has the rows, columns and values it had before the call.
C25_NoInPlaceMutation ==
  bin_step >= 3 => joined = combine_data(abundance, coverage)

\* C28: in main() of combine_abundance_coverage.py the output directory is
\* made before any file is written into it: every write of the run comes
\* after its mkdir, and no write fails for want of the directory, also when
\* the directory is not there at the start.
C28_DirectoryBeforeWrites ==
  /\ \A i \in DOMAIN output_dir.log :
       output_dir.log[i] # "mkdir" =>
         \E j \in 1..(i - 1) : output_dir.log[j] = "mkdir"
  /\ output_dir.error # "FileNotFoundError"

\* C29: the three numbers combine_data prints for the outer join (in both
\* datasets, only in CoverM, only in SingleM) add up to the number of rows
\* of the combined table, a row whose coverage has a value in some samples
\* and none in others included.
C29_CountsPartition ==
  bin_step >= 2 =>
    bin_report.both + bin_report.only_coverm + bin_report.only_singlem
      = bin_report.total

\* C30: classify_mags labels a row Incomplete_Data exactly when it has no
\* abundance value in any sample or no coverage value in any sample; every
\* other row gets one of the four quadrant labels, from means taken over
\* the values that are present only, a missing value never counted as 0.
RowValues(df, l, role) ==
  LET cols == SelectSeq(df.columns, LAMBDA c : c.role = role)
  IN Defined([k \in DOMAIN cols |-> df.data[l][cols[k]]])

C30_IncompleteIffNoValue ==
  bin_step >= 3 =>
    \A l \in Range(combined.index) :
      LET ra == RowValues(combined, l, "RA")
          cov == RowValues(combined, l, "Cov")
          label == combined.data[l][ClassCol].s
          mean_ra == combined.data[l][MeanRACol]
          mean_cov == combined.data[l][MeanCovCol]
      IN /\ label = "Incomplete_Data" <=> (ra = <<>> \/ cov = <<>>)
         /\ label # "Incomplete_Data" =>
              /\ label \in Labels
              /\ FMul(mean_ra, Num(Len(ra))) = SumSeq(ra)
              /\ FMul(mean_cov, Num(Len(cov))) = SumSeq(cov)
              /\ label = classify(FDiv(SumSeq(ra), Num(Len(ra))),
                                  FDiv(SumSeq(cov), Num(Len(cov))))

C30_Witness ==
  /\ bin_step >= 3
  /\ combined.index = <<1>>
  /\ combined.data[1][Col(1, "Cov")] = Num(81)
  /\ IsNaN(combined.data[1][Col(2, "Cov")])
  /\ combined.data[1][Col(1, "RA")] = Num(6)
  /\ combined.data[1][MeanCovCol] = Num(81)
  /\ combined.data[1][ClassCol] = Label("High_Abundance_High_Coverage")

\* C26: with n >= 2 sample pairs Mean_Log2_Ratio is the mean of exactly the
\* n ratio columns and StdDev the sample standard deviation (divisor n - 1)
\* of exactly those n columns: neither takes in the other derived column.
C26_MeanAndStdOverPairs ==
  Exists("expression_ratios.csv") =>
    LET er == File("expression_ratios.csv")
        cols == RatioCols(er)
        n == Len(cols)
    IN n >= 2 =>
         /\ er.columns = cols \o <<MeanCol, StdCol>>
         /\ \A l \in Range(er.index) :
              LET rs == [k \in 1..n |-> er.data[l][cols[k]]]
                  m == er.data[l][MeanCol]
                  sd == er.data[l][StdCol]
              IN (\A k \in 1..n : IsLog(rs[k])) =>
                   /\ m = [kind |-> "mean", pn |-> Numerators(rs),
                           pd |-> Denominators(rs), cnt |-> n]
                   /\ sd = [kind |-> "std", of |-> rs, ddof |-> 1]
                   /\ Len(sd.of) = n
                   /\ \A k \in 1..n : sd.of[k] # m

C26_Witness ==
  /\ Exists("expression_ratios.csv")
  /\ LET er == File("expression_ratios.csv")
     IN /\ Len(RatioCols(er)) = 2
        /\ \E l \in Range(er.index) :
             /\ er.data[l][Col(1, "ratio")] = [kind |-> "log", n |-> 1000001, d |-> 1]
             /\ er.data[l][Col(2, "ratio")] = [kind |-> "log", n |-> 1, d |-> 1000001]
             /\ er.data[l][MeanCol].cnt = 2
             /\ er.data[l][StdCol].of
                  = <<er.data[l][Col(1, "ratio")], er.data[l][Col(2, "ratio")]>>

\* C27: the saved list of highly expressed genes holds exactly the features
\* of Mean_Log2_Ratio > 2, as many as the highly expressed count printed,
\* by descending mean; the saved list of under-expressed genes holds
\* exactly the features of mean < -2, by ascending mean, all of them among
\* the features counted as under-expressed (mean < 0); no feature is in
\* both lists.
MeanOf(l) == File("expression_ratios.csv").data[l][MeanCol]

Genes == Range(File("expression_ratios.csv").index)

====
